---- MODULE Spec2Model ----
(***************************************************************************)
(* Model of scripts/generate_icons.py: the icon generator of CatClipboard. *)
(* The script is one straight-line routine; every statement that touches   *)
(* the filesystem, the working raster or the process outcome is one step   *)
(* of the model, so that a fault between two writes is a reachable state.  *)
(* Rasters are abstracted to their width, height, mode and the list of     *)
(* resizes that produced them; a file is abstracted to its format, the     *)
(* raster it encodes and the sizes it embeds.                              *)
(***************************************************************************)
EXTENDS Integers, Sequences, FiniteSets, TLC

VARIABLES
    fs,        \* the filesystem: path -> file contents (NoFile when absent)
    pc,        \* the statement the process is about to execute
    img,       \* the script's variable img (the working raster)
    resized,   \* the script's variable resized (last per-target raster)
    idx,       \* position in the iteration over png_targets
    stdout,    \* lines printed to standard output by the current run
    stderr,    \* diagnostic of the current run
    exitCode,  \* exit status of the current run (Running until it ends)
    run,       \* number of the current invocation
    written,   \* history: paths saved successfully by the current run, in order
    fs0,       \* history: the filesystem when the current run started
    prev,      \* history: outcome of the previous run
    touched    \* history: the environment changed icon.png since the last run started

vars == <<fs, pc, img, resized, idx, stdout, stderr, exitCode, run, written,
          fs0, prev, touched>>

\* ------------------------------------------------------------------ bounds
MaxRuns == 2

\* Sizes <<width, height>> of the source images explored: square and not,
\* below, at and above the 512 threshold, shorter side below and above 256.
SourceSizes ==
    { <<100, 100>>, <<100, 300>>, <<511, 200>>, <<512, 512>>, <<512, 300>>,
      <<600, 100>>, <<600, 600>> }
SourceModes == {"RGB", "RGBA"}

\* ------------------------------------------------------------- data model
Max(a, b) == IF a >= b THEN a ELSE b
Min(a, b) == IF a <= b THEN a ELSE b

NoImage == [w |-> 0, h |-> 0, mode |-> "none", hist |-> <<>>]
NoFile  == [fmt |-> "absent", raster |-> NoImage, entries |-> {}]
\* what an interrupted encoder leaves in a file that already existed
Partial == [fmt |-> "partial", raster |-> NoImage, entries |-> {}]
Corrupt == [fmt |-> "corrupt", raster |-> NoImage, entries |-> {}]

Running == 0 - 1
NoMessage == [text |-> "", path |-> <<>>]

\* ------------------------------------------------------------------ paths
BASE_DIR == <<"src-tauri", "icons">>
Join(dir, name) == Append(dir, name)
SOURCE_ICON == Join(BASE_DIR, "icon.png")

\* png_targets with the "@2x" entry forgotten
png_targets_two ==
    << <<"32x32.png", <<32, 32>> >>,
       <<"128x128.png", <<128, 128>> >> >>

\* png_targets with the "@2x" entry given its nominal size
png_targets_nominal ==
    << <<"32x32.png", <<32, 32>> >>,
       <<"128x128.png", <<128, 128>> >>,
       <<"128x128@2x.png", <<128, 128>> >> >>

\* png_targets whose first output is written over the source
png_targets_over_source ==
    << <<"icon.png", <<32, 32>> >>,
       <<"128x128.png", <<128, 128>> >>,
       <<"128x128@2x.png", <<256, 256>> >> >>

\* png_targets iterated in another order
png_targets_reordered ==
    << <<"128x128.png", <<128, 128>> >>,
       <<"32x32.png", <<32, 32>> >>,
       <<"128x128@2x.png", <<256, 256>> >> >>

png_targets ==
    << <<"32x32.png", <<32, 32>> >>,
       <<"128x128.png", <<128, 128>> >>,
       <<"128x128@2x.png", <<256, 256>> >> >>

ico_sizes == { <<16, 16>>, <<24, 24>>, <<32, 32>>, <<48, 48>>, <<64, 64>>,
               <<128, 128>>, <<256, 256>> }
icns_sizes == { <<16, 16>>, <<32, 32>>, <<64, 64>>, <<128, 128>>,
                <<256, 256>>, <<512, 512>> }

ICO_PATH == Join(BASE_DIR, "icon.ico")
ICNS_PATH == Join(BASE_DIR, "icon.icns")
PngPath(i) == Join(BASE_DIR, png_targets[i][1])

OutputOrder ==
    << Join(BASE_DIR, "32x32.png"), Join(BASE_DIR, "128x128.png"),
       Join(BASE_DIR, "128x128@2x.png"), Join(BASE_DIR, "icon.ico"),
       Join(BASE_DIR, "icon.icns") >>
Outputs == {OutputOrder[i] : i \in 1..Len(OutputOrder)}
Paths == Outputs \cup {SOURCE_ICON}

\* ------------------------------------------------- imaging library calls
\* A source file as the environment can provide it: a PNG of some size and
\* mode, freshly drawn (no resize history), or a file that is no image.
SourceFiles ==
    { [fmt |-> "PNG",
       raster |-> [w |-> s[1], h |-> s[2], mode |-> m, hist |-> <<>>],
       entries |-> {}] :
        s \in SourceSizes, m \in SourceModes }
    \cup {Corrupt}

\* Path.exists()
Exists(f, path) == f[path] # NoFile

\* Image.open(path): raises unless the file decodes as an image
CanOpen(file) == file.fmt \in {"PNG", "ICO", "ICNS"}
Open(file) == file.raster

\* Image.convert(mode): same pixels and size, the requested channel layout
Convert(im, mode) == [im EXCEPT !.mode = mode]

\* Image.resize(size, LANCZOS): a NEW raster of exactly the requested size,
\* whatever the aspect ratio of the original; the original is not changed
Resize(im, size) ==
    [w |-> size[1], h |-> size[2], mode |-> im.mode,
     hist |-> Append(im.hist, size)]

MIN_CANVAS == 512
MIN_CANVAS_SIZE == <<512, 512>>

\* max(img.size) < 512
NeedsUpscaleOnShortSide(im) == Min(im.w, im.h) < MIN_CANVAS
NeedsUpscale(im) == Max(im.w, im.h) < MIN_CANVAS

\* img = img.resize((512, 512), LANCZOS) under the condition above
EnsureCanvasHalf(im) == IF NeedsUpscale(im) THEN Resize(im, <<256, 256>>) ELSE im
EnsureCanvas(im) == IF NeedsUpscale(im) THEN Resize(im, MIN_CANVAS_SIZE) ELSE im

\* Image.save(path) for a .png name
EncodePng(im) == [fmt |-> "PNG", raster |-> im, entries |-> {}]

\* Image.save(path, sizes=...) for a .ico name.  Pillow's ICO encoder embeds
\* one frame per requested size, but skips every requested size that is wider
\* or taller than the image it is given, or larger than 256.
IcoFrames(im, sizes) ==
    { s \in sizes : ~(s[1] > im.w \/ s[2] > im.h \/ s[1] > 256 \/ s[2] > 256) }
EncodeIco(im, sizes) == [fmt |-> "ICO", raster |-> im, entries |-> IcoFrames(im, sizes)]

\* Image.save(path, format="ICNS", sizes=...): entries records the sizes the
\* script asks for
EncodeIcns(im, sizes) == [fmt |-> "ICNS", raster |-> im, entries |-> sizes]

\* A save that raises leaves the file as it was (it could not be opened for
\* writing) or, when the encoder was interrupted, removes the file it had
\* just created or leaves a truncated one where a file already existed.
FaultOutcomes(f, path) ==
    { f, [f EXCEPT ![path] = IF Exists(f, path) THEN Partial ELSE NoFile] }

\* ----------------------------------------------------- process outcomes
\* raise SystemExit(f"Source icon not found: {SOURCE_ICON}"): the message goes
\* to standard error and the exit status is 1
SourceMissingMessageNoPath == [text |-> "Source icon not found", path |-> <<>>]
SourceMissingMessage == [text |-> "Source icon not found: ", path |-> SOURCE_ICON]
SystemExitStatusZero == 0
SystemExitStatus == 1
\* an exception nobody catches: traceback on standard error, exit status 1
Traceback == [text |-> "Traceback (most recent call last)", path |-> <<>>]
UncaughtStatus == 1
Confirmation == [text |-> "Generated icon assets in", path |-> BASE_DIR]

\* ------------------------------------------------------------------ state
Init ==
    /\ \E src \in SourceFiles \cup {NoFile} :
          fs = [p \in Paths |-> IF p = SOURCE_ICON THEN src ELSE NoFile]
    /\ pc = "check"
    /\ img = NoImage
    /\ resized = NoImage
    /\ idx = 1
    /\ stdout = <<>>
    /\ stderr = NoMessage
    /\ exitCode = Running
    /\ run = 1
    /\ written = <<>>
    /\ fs0 = fs
    /\ prev = [exit |-> Running, fs |-> fs, clean |-> FALSE]
    /\ touched = FALSE

\* the process ends with the given status and diagnostic
Exit(status, msg) ==
    /\ pc' = "done"
    /\ exitCode' = status
    /\ stderr' = msg

\* lines 7-8, source absent: raise SystemExit(message)
CheckSourceMissing ==
    /\ pc = "check"
    /\ ~Exists(fs, SOURCE_ICON)
    /\ Exit(SystemExitStatus, SourceMissingMessage)
    /\ UNCHANGED <<fs, img, resized, idx, stdout, run, written, fs0, prev, touched>>

\* line 7, source present: fall through to line 10
CheckSourcePresent ==
    /\ pc = "check"
    /\ Exists(fs, SOURCE_ICON)
    /\ pc' = "open"
    /\ UNCHANGED <<fs, img, resized, idx, stdout, stderr, exitCode, run, written,
                   fs0, prev, touched>>

\* line 10: img = Image.open(SOURCE_ICON).convert("RGBA")
OpenSource ==
    /\ pc = "open"
    /\ CanOpen(fs[SOURCE_ICON])
    /\ img' = Convert(Open(fs[SOURCE_ICON]), "RGBA")
    /\ pc' = "minsize"
    /\ UNCHANGED <<fs, resized, idx, stdout, stderr, exitCode, run, written,
                   fs0, prev, touched>>

\* line 10 raising on a file that is no image: nothing catches it
OpenFault ==
    /\ pc = "open"
    /\ ~CanOpen(fs[SOURCE_ICON])
    /\ Exit(UncaughtStatus, Traceback)
    /\ UNCHANGED <<fs, img, resized, idx, stdout, run, written, fs0, prev, touched>>

\* lines 13-14
MinSize ==
    /\ pc = "minsize"
    /\ img' = EnsureCanvas(img)
    /\ pc' = "png"
    /\ idx' = 1
    /\ UNCHANGED <<fs, resized, stdout, stderr, exitCode, run, written,
                   fs0, prev, touched>>

\* where control goes after iteration idx of the loop of line 23
AfterPng == IF idx < Len(png_targets) THEN "png" ELSE "ico"

\* lines 23-25, one iteration whose save succeeds, with the bug of assigning
\* the result to img instead of resized
PngStepInPlace ==
    /\ pc = "png"
    /\ img' = Resize(img, png_targets[idx][2])
    /\ resized' = img'
    /\ fs' = [fs EXCEPT ![PngPath(idx)] = EncodePng(img')]
    /\ written' = Append(written, PngPath(idx))
    /\ pc' = AfterPng
    /\ idx' = idx + 1
    /\ UNCHANGED <<stdout, stderr, exitCode, run, fs0, prev, touched>>

\* lines 23-25, one iteration whose save succeeds
PngStep ==
    /\ pc = "png"
    /\ resized' = Resize(img, png_targets[idx][2])
    /\ fs' = [fs EXCEPT ![PngPath(idx)] = EncodePng(resized')]
    /\ written' = Append(written, PngPath(idx))
    /\ pc' = AfterPng
    /\ idx' = idx + 1
    /\ UNCHANGED <<img, stdout, stderr, exitCode, run, fs0, prev, touched>>

\* lines 24-25, the save raising: the resize has happened, the loop is left
PngFault ==
    /\ pc = "png"
    /\ resized' = Resize(img, png_targets[idx][2])
    /\ fs' \in FaultOutcomes(fs, PngPath(idx))
    /\ Exit(UncaughtStatus, Traceback)
    /\ UNCHANGED <<img, idx, stdout, run, written, fs0, prev, touched>>

\* line 29
IcoSave ==
    /\ pc = "ico"
    /\ fs' = [fs EXCEPT ![ICO_PATH] = EncodeIco(img, ico_sizes)]
    /\ written' = Append(written, ICO_PATH)
    /\ pc' = "icns"
    /\ UNCHANGED <<img, resized, idx, stdout, stderr, exitCode, run, fs0, prev, touched>>

IcoFault ==
    /\ pc = "ico"
    /\ fs' \in FaultOutcomes(fs, ICO_PATH)
    /\ Exit(UncaughtStatus, Traceback)
    /\ UNCHANGED <<img, resized, idx, stdout, run, written, fs0, prev, touched>>

\* line 33
IcnsSave ==
    /\ pc = "icns"
    /\ fs' = [fs EXCEPT ![ICNS_PATH] = EncodeIcns(img, icns_sizes)]
    /\ written' = Append(written, ICNS_PATH)
    /\ pc' = "print"
    /\ UNCHANGED <<img, resized, idx, stdout, stderr, exitCode, run, fs0, prev, touched>>

IcnsFault ==
    /\ pc = "icns"
    /\ fs' \in FaultOutcomes(fs, ICNS_PATH)
    /\ Exit(UncaughtStatus, Traceback)
    /\ UNCHANGED <<img, resized, idx, stdout, run, written, fs0, prev, touched>>

\* line 35, then the end of the script: exit status 0
PrintDone ==
    /\ pc = "print"
    /\ stdout' = Append(stdout, Confirmation)
    /\ pc' = "done"
    /\ exitCode' = 0
    /\ UNCHANGED <<fs, img, resized, idx, stderr, run, written, fs0, prev, touched>>

\* ------------------------------------------------------------ environment
\* Between two runs somebody may replace or delete icon.png.
EnvPutSource ==
    /\ pc = "done"
    /\ run < MaxRuns
    /\ \E src \in SourceFiles :
          /\ src # fs[SOURCE_ICON]
          /\ fs' = [fs EXCEPT ![SOURCE_ICON] = src]
    /\ touched' = TRUE
    /\ UNCHANGED <<pc, img, resized, idx, stdout, stderr, exitCode, run, written,
                   fs0, prev>>

EnvRemoveSource ==
    /\ pc = "done"
    /\ run < MaxRuns
    /\ Exists(fs, SOURCE_ICON)
    /\ fs' = [fs EXCEPT ![SOURCE_ICON] = NoFile]
    /\ touched' = TRUE
    /\ UNCHANGED <<pc, img, resized, idx, stdout, stderr, exitCode, run, written,
                   fs0, prev>>

\* The script is started again: a fresh process, the same filesystem.
Invoke ==
    /\ pc = "done"
    /\ run < MaxRuns
    /\ run' = run + 1
    /\ pc' = "check"
    /\ img' = NoImage
    /\ resized' = NoImage
    /\ idx' = 1
    /\ stdout' = <<>>
    /\ stderr' = NoMessage
    /\ exitCode' = Running
    /\ written' = <<>>
    /\ fs0' = fs
    /\ prev' = [exit |-> exitCode, fs |-> fs, clean |-> ~touched]
    /\ touched' = FALSE
    /\ UNCHANGED fs

Next ==
    \/ CheckSourceMissing
    \/ CheckSourcePresent
    \/ OpenSource
    \/ OpenFault
    \/ MinSize
    \/ PngStep
    \/ PngFault
    \/ IcoSave
    \/ IcoFault
    \/ IcnsSave
    \/ IcnsFault
    \/ PrintDone
    \/ EnvPutSource
    \/ EnvRemoveSource
    \/ Invoke

Spec == Init /\ [][Next]_vars

\* ================================================================ claims
Range(seq) == {seq[i] : i \in 1..Len(seq)}
IsPrefix(s, t) == Len(s) <= Len(t) /\ \A i \in 1..Len(s) : s[i] = t[i]

\* the current run has ended and nobody has touched the filesystem since
RunEnded == pc = "done" /\ ~touched
\* the current run is past the minimum-size step
PastMinSize == pc \in {"png", "ico", "icns", "print"}
\* the source as the current run found it, decoded
Decoded == Open(fs0[SOURCE_ICON])
Faulted == stderr = Traceback

PNG_32 == Join(BASE_DIR, "32x32.png")
PNG_128 == Join(BASE_DIR, "128x128.png")
PNG_128_2X == Join(BASE_DIR, "128x128@2x.png")

\* C1: a run that starts without icon.png ends with a non-zero exit status and
\* a message that holds the path of the source, and leaves the filesystem as
\* it found it: no output is created or modified.
C1_MissingSourceFailsFast ==
    (RunEnded /\ ~Exists(fs0, SOURCE_ICON)) =>
        /\ exitCode # 0
        /\ exitCode # Running
        /\ stderr.path = SOURCE_ICON
        /\ written = <<>>
        /\ fs = fs0

\* a second run finds the source gone while outputs of the first run exist
C1_Witness ==
    /\ RunEnded
    /\ ~Exists(fs0, SOURCE_ICON)
    /\ run = 2
    /\ \A p \in Outputs : Exists(fs, p)

\* C2: a run on a valid source of at least 512x512 that ends without a fault
\* has written the five outputs and nothing else, each in its declared
\* format, and icon.png is as the run found it; no run ever writes icon.png.
C2_ExactlyFiveOutputs ==
    /\ SOURCE_ICON \notin Range(written)
    /\ (RunEnded /\ CanOpen(fs0[SOURCE_ICON]) /\ Decoded.w >= 512 /\ Decoded.h >= 512
            /\ ~Faulted) =>
        /\ Len(written) = 5
        /\ Range(written) = Outputs
        /\ fs[SOURCE_ICON] = fs0[SOURCE_ICON]
        /\ \A p \in {PNG_32, PNG_128, PNG_128_2X} : fs[p].fmt = "PNG"
        /\ fs[ICO_PATH].fmt = "ICO"
        /\ fs[ICNS_PATH].fmt = "ICNS"

C2_Witness ==
    /\ RunEnded
    /\ run = 1
    /\ Decoded.w = 600 /\ Decoded.h = 600
    /\ ~Faulted
    /\ Len(written) = 5

\* C3: whatever the size of the source, a PNG output this run has written has
\* exactly the size of its name: 32x32, 128x128, and 256x256 for 128x128@2x.
C3_PngDimensions ==
    /\ PNG_32 \in Range(written) =>
          fs[PNG_32].fmt = "PNG" /\ fs[PNG_32].raster.w = 32 /\ fs[PNG_32].raster.h = 32
    /\ PNG_128 \in Range(written) =>
          fs[PNG_128].fmt = "PNG" /\ fs[PNG_128].raster.w = 128 /\ fs[PNG_128].raster.h = 128
    /\ PNG_128_2X \in Range(written) =>
          /\ fs[PNG_128_2X].fmt = "PNG"
          /\ fs[PNG_128_2X].raster.w = 256
          /\ fs[PNG_128_2X].raster.h = 256

\* the "@2x" output written from a small, non-square source
C3_Witness ==
    /\ PNG_128_2X \in Range(written)
    /\ Decoded.w = 100 /\ Decoded.h = 300
    /\ fs[PNG_128_2X].raster.w = 256

\* C4: an icon.ico this run has written holds an entry at each of the seven
\* sizes 16, 24, 32, 48, 64, 128 and 256, whatever the working raster.
C4_IcoHasSevenSizes ==
    ICO_PATH \in Range(written) =>
        \A n \in {16, 24, 32, 48, 64, 128, 256} : <<n, n>> \in fs[ICO_PATH].entries

\* C5: wherever an output is produced the longer side of the working raster
\* is at least 512, and the working raster is the decoded source after at
\* most one resize, the one to 512x512.
C5_MinimumCanvas ==
    PastMinSize =>
        /\ Max(img.w, img.h) >= 512
        /\ img.hist \in {<<>>, << <<512, 512>> >>}

\* the ICNS save is reached with a working raster that was upscaled
C5_Witness ==
    /\ pc = "icns"
    /\ Decoded.w = 100 /\ Decoded.h = 100
    /\ img.hist = << <<512, 512>> >>

\* C6: when two consecutive runs both succeed and nobody changed icon.png in
\* between, every file (the five outputs and icon.png itself) is after the
\* second run what it was after the first.
C6_Idempotent ==
    (RunEnded /\ exitCode = 0 /\ prev.exit = 0 /\ prev.clean) =>
        \A p \in Paths : fs[p] = prev.fs[p]

C6_Witness ==
    /\ RunEnded
    /\ exitCode = 0
    /\ prev.exit = 0
    /\ prev.clean
    /\ run = 2
    /\ Decoded.w = 100 /\ Decoded.h = 300

\* every file this run has written still holds an image in its format
WrittenFilesIntact ==
    \A i \in 1..Len(written) :
        /\ Exists(fs, written[i])
        /\ fs[written[i]].fmt = (IF i <= 3 THEN "PNG" ELSE IF i = 4 THEN "ICO" ELSE "ICNS")
        /\ fs[written[i]].raster.mode = "RGBA"

\* C7: the files a run has written are always a prefix of 32x32.png,
\* 128x128.png, 128x128@2x.png, icon.ico, icon.icns: all five on success, none
\* on a missing source.  A fault ends the run: the files written before it
\* stay as written, and the files after the failed one are as they were
\* before the run.
C7_WritesArePrefix ==
    /\ IsPrefix(written, OutputOrder)
    /\ exitCode = 0 => written = OutputOrder
    /\ (pc = "done" /\ ~Exists(fs0, SOURCE_ICON)) => written = <<>>
    /\ Faulted => pc = "done" /\ exitCode # 0 /\ Len(written) < Len(OutputOrder)
    /\ (RunEnded /\ Faulted) =>
          /\ WrittenFilesIntact
          /\ \A j \in (Len(written) + 2)..Len(OutputOrder) :
                fs[OutputOrder[j]] = fs0[OutputOrder[j]]

\* the save of icon.ico fails in a first run: three files stay, two are absent
C7_Witness ==
    /\ RunEnded
    /\ Faulted
    /\ run = 1
    /\ Len(written) = 3
    /\ \A i \in 1..3 : Exists(fs, OutputOrder[i])
    /\ ~Exists(fs, ICO_PATH)
    /\ ~Exists(fs, ICNS_PATH)

\* C8: a run prints nothing and has no exit status while it is running, and
\* ends in exactly one of two ways: status 0 with the confirmation printed
\* after all five outputs were written, or a non-zero status with a
\* diagnostic and no confirmation.
C8_TwoOutcomes ==
    /\ pc # "done" => exitCode = Running /\ stdout = <<>>
    /\ pc = "done" =>
          \/ /\ exitCode = 0
             /\ stdout = <<Confirmation>>
             /\ stderr = NoMessage
             /\ written = OutputOrder
          \/ /\ exitCode # 0
             /\ exitCode # Running
             /\ stdout = <<>>
             /\ stderr # NoMessage
             /\ written # OutputOrder

\* a successful second run after a first run that failed
C8_Witness ==
    /\ RunEnded
    /\ run = 2
    /\ exitCode = 0
    /\ stdout = <<Confirmation>>
    /\ prev.exit = 1

\* C9: after the minimum-size step the working raster is a 512x512 resize of
\* the decoded source exactly when the longer side of the source is below
\* 512; otherwise it has the width and height of the source and no resize.
C9_UpscaleIffLongSideSmall ==
    PastMinSize =>
        /\ (Max(Decoded.w, Decoded.h) < 512) <=> (img.hist # <<>>)
        /\ Max(Decoded.w, Decoded.h) < 512 =>
              img.w = 512 /\ img.h = 512 /\ img.hist = << <<512, 512>> >>
        /\ Max(Decoded.w, Decoded.h) >= 512 =>
              img.w = Decoded.w /\ img.h = Decoded.h

\* a non-square source whose longer side is 600 and shorter side 100 is kept
C9_Witness ==
    /\ pc = "png"
    /\ Decoded.w = 600 /\ Decoded.h = 100
    /\ img.w = 600 /\ img.h = 100

\* every file this run has written encodes the working raster (ICO, ICNS) or
\* one resize of the working raster (PNG)
DerivedFromWorking ==
    \A i \in 1..Len(written) :
        LET file == fs[written[i]] IN
            \/ file.fmt \in {"ICO", "ICNS"} /\ file.raster = img
            \/ /\ file.fmt = "PNG"
               /\ file.raster.mode = img.mode
               /\ Len(file.raster.hist) = Len(img.hist) + 1
               /\ SubSeq(file.raster.hist, 1, Len(img.hist)) = img.hist

\* C10: once the minimum-size step is done no step changes the working
\* raster, and every output is derived from that raster directly, never from
\* another output.
C10_WorkingRasterFrozen ==
    /\ []DerivedFromWorking
    /\ [][PastMinSize => img' = img]_vars

\* all five outputs written from an upscaled working raster
C10_Witness ==
    /\ pc = "print"
    /\ Len(written) = 5
    /\ img.hist = << <<512, 512>> >>
    /\ fs[PNG_128_2X].raster.hist = << <<512, 512>>, <<256, 256>> >>

====
